---- MODULE Spec2Model ----
(***************************************************************************)
(* A model of the event-reminder bot of src/main.py: the per-user event    *)
(* store (one SQLite file per user), the three-step creation wizard, the   *)
(* browsing and deletion handlers, and the once-a-minute reminder loop.    *)
(*                                                                         *)
(* Texts are sequences of one-character strings, so that parsing           *)
(* (strptime), trimming (strip) and formatting (strftime) are computed.    *)
(***************************************************************************)
EXTENDS Integers, Sequences, FiniteSets, TLC

VARIABLES
    fsmState,   \* per user: the aiogram FSM state tag (EventStates)
    fsmData,    \* per user: the aiogram FSM data dictionary
    db,         \* per database file: the rows of its events table
    dbSeq,      \* per database file: the AUTOINCREMENT counter
    now,        \* the clock of get_now(): [day |-> ordinal, sec |-> second of the day]
    reply,      \* the last response a handler sent
    run,        \* history, per user: the turns of a wizard run without a detour
    entered,    \* history, per user: the fields entered since the last start-add
    call,       \* history: the last call made of the store alone, and its result
    flight,     \* per user: the finalizations whose response is being sent,
                \* and history: the events saved in this pass of the wizard
    running,    \* is_reminders_running
    tasks,      \* the number of reminder loop tasks created and not ended
    pc,         \* the reminder loop's position
    readOk,     \* history: the storage has worked for every sweep's query
    curTime,    \* the reminder loop's current_time
    curDay,     \* history: the day on which current_time was read
    queue,      \* the reminder loop's events still to handle in this sweep
    snap,       \* history: the rows the sweep's query returned
    outbox,     \* history: the events the sweep handled, each with its sends
    reminded,   \* history: <<user, event id, day>> of every reminder sent
    wake,       \* the time at which the loop's sleep ends
    ticks       \* the number of clock steps taken (bounded)

vars == <<fsmState, fsmData, db, dbSeq, now, reply, run, entered, call, flight,
          running, tasks, pc, readOk, curTime, curDay, queue, snap, outbox,
          reminded, wake, ticks>>

-----------------------------------------------------------------------------
(* Bounds of the model. *)

\* ids a database file hands out (its AUTOINCREMENT counter stops there)
MaxId == 1
\* clock steps of the reminder loop's model
MaxTicks == 4
\* seconds per clock step of the reminder loop's model
TickSeconds == 30
\* rows in the reminder loop's initial store
MaxRows == 2
\* finalizations of one user whose response is being sent at the same time
MaxFlights == 2

-----------------------------------------------------------------------------
(* Characters and numbers. *)

Digits == {"0", "1", "2", "3", "4", "5", "6", "7", "8", "9"}

DigitChars == <<"0", "1", "2", "3", "4", "5", "6", "7", "8", "9">>

DigitVal(c) == CHOOSE n \in 0..9 : DigitChars[n + 1] = c

IsDigits(s) == \A i \in 1..Len(s) : s[i] \in Digits

RECURSIVE ToInt(_)
ToInt(s) ==
    IF s = <<>> THEN 0
    ELSE ToInt(SubSeq(s, 1, Len(s) - 1)) * 10 + DigitVal(s[Len(s)])

Pad2(n) == <<DigitChars[((n \div 10) % 10) + 1], DigitChars[(n % 10) + 1]>>

Pad4(n) == Pad2(n \div 100) \o Pad2(n % 100)

\* str.strip(): leading and trailing blanks removed
RECURSIVE Strip(_)
Strip(s) ==
    IF s = <<>> THEN s
    ELSE IF Head(s) = " " THEN Strip(Tail(s))
    ELSE IF s[Len(s)] = " " THEN Strip(SubSeq(s, 1, Len(s) - 1))
    ELSE s

\* '-' in s
HasDash(s) == \E i \in 1..Len(s) : s[i] = "-"

-----------------------------------------------------------------------------
(* The calendar of datetime.date. *)

IsLeap(y) == (y % 4 = 0) /\ ((y % 100 # 0) \/ (y % 400 = 0))

DaysInMonth(y, m) ==
    IF m = 2 THEN (IF IsLeap(y) THEN 29 ELSE 28)
    ELSE IF m \in {4, 6, 9, 11} THEN 30 ELSE 31

DaysBeforeMonth(y, m) ==
    <<0, 31, 59, 90, 120, 151, 181, 212, 243, 273, 304, 334>>[m]
    + (IF m > 2 /\ IsLeap(y) THEN 1 ELSE 0)

DaysBeforeYear(y) ==
    LET p == y - 1 IN p * 365 + (p \div 4) - (p \div 100) + (p \div 400)

\* date.toordinal()
Ordinal(y, m, d) == DaysBeforeYear(y) + DaysBeforeMonth(y, m) + d

\* the result of a failed parse (strptime raised ValueError)
NoDate == [ok |-> FALSE, y |-> 0, m |-> 0, d |-> 0]

\* a datetime that takes any fields
MkDateUnchecked(y, m, d) == [ok |-> TRUE, y |-> y, m |-> m, d |-> d]

\* datetime(y, m, d): ValueError when the fields name no calendar day
MkDate(y, m, d) ==
    IF y >= 1 /\ m \in 1..12 /\ d >= 1 /\ d <= DaysInMonth(y, m)
    THEN [ok |-> TRUE, y |-> y, m |-> m, d |-> d]
    ELSE NoDate

DateOrd(t) == Ordinal(t.y, t.m, t.d)

-----------------------------------------------------------------------------
(* strptime: the directives' regular expressions, each on a field of the   *)
(* text. A directive followed by a literal, or at the end of the text,     *)
(* matches a field in one way at most.                                     *)

\* %d: 3[0-1]|[1-2]\d|0[1-9]|[1-9]| [1-9]
IsDayField(f) ==
    \/ /\ Len(f) = 2
       /\ \/ f[1] = "3" /\ f[2] \in {"0", "1"}
          \/ f[1] \in {"1", "2"} /\ f[2] \in Digits
          \/ f[1] \in {"0", " "} /\ f[2] \in Digits \ {"0"}
    \/ Len(f) = 1 /\ f[1] \in Digits \ {"0"}

DayFieldVal(f) == IF f[1] = " " THEN DigitVal(f[2]) ELSE ToInt(f)

\* %m: 1[0-2]|0[1-9]|[1-9]
IsMonthField(f) ==
    \/ /\ Len(f) = 2
       /\ \/ f[1] = "1" /\ f[2] \in {"0", "1", "2"}
          \/ f[1] = "0" /\ f[2] \in Digits \ {"0"}
    \/ Len(f) = 1 /\ f[1] \in Digits \ {"0"}

\* %Y: \d\d\d\d
IsYearField(f) == Len(f) = 4 /\ IsDigits(f)

\* %H: 2[0-3]|[0-1]\d|\d
IsHourField(f) ==
    \/ /\ Len(f) = 2
       /\ \/ f[1] = "2" /\ f[2] \in {"0", "1", "2", "3"}
          \/ f[1] \in {"0", "1"} /\ f[2] \in Digits
    \/ Len(f) = 1 /\ f[1] \in Digits

\* %M: [0-5]\d|\d
IsMinuteField(f) ==
    \/ Len(f) = 2 /\ f[1] \in {"0", "1", "2", "3", "4", "5"} /\ f[2] \in Digits
    \/ Len(f) = 1 /\ f[1] \in Digits

\* datetime.strptime(s, "%d.%m.%Y")
StrptimeDMY(s) ==
    LET fits == {c \in {1, 2} \X {1, 2} :
                    /\ Len(s) = c[1] + c[2] + 6
                    /\ IsDayField(SubSeq(s, 1, c[1]))
                    /\ s[c[1] + 1] = "."
                    /\ IsMonthField(SubSeq(s, c[1] + 2, c[1] + 1 + c[2]))
                    /\ s[c[1] + c[2] + 2] = "."
                    /\ IsYearField(SubSeq(s, c[1] + c[2] + 3, c[1] + c[2] + 6))}
    IN  IF fits = {} THEN NoDate
        ELSE LET c == CHOOSE c \in fits : TRUE
             IN  MkDate(ToInt(SubSeq(s, c[1] + c[2] + 3, c[1] + c[2] + 6)),
                        ToInt(SubSeq(s, c[1] + 2, c[1] + 1 + c[2])),
                        DayFieldVal(SubSeq(s, 1, c[1])))

\* datetime.strptime(s, "%Y-%m-%d")
StrptimeYMD(s) ==
    LET fits == {c \in {1, 2} \X {1, 2} :
                    /\ Len(s) = c[1] + c[2] + 6
                    /\ IsYearField(SubSeq(s, 1, 4))
                    /\ s[5] = "-"
                    /\ IsMonthField(SubSeq(s, 6, 5 + c[1]))
                    /\ s[6 + c[1]] = "-"
                    /\ IsDayField(SubSeq(s, 7 + c[1], 6 + c[1] + c[2]))}
    IN  IF fits = {} THEN NoDate
        ELSE LET c == CHOOSE c \in fits : TRUE
             IN  MkDate(ToInt(SubSeq(s, 1, 4)),
                        ToInt(SubSeq(s, 6, 5 + c[1])),
                        DayFieldVal(SubSeq(s, 7 + c[1], 6 + c[1] + c[2])))

\* datetime.strptime(s, "%H:%M") succeeds
StrptimeHMOk(s) ==
    \E c \in {1, 2} \X {1, 2} :
        /\ Len(s) = c[1] + c[2] + 1
        /\ IsHourField(SubSeq(s, 1, c[1]))
        /\ s[c[1] + 1] = ":"
        /\ IsMinuteField(SubSeq(s, c[1] + 2, c[1] + 1 + c[2]))

\* strftime("%Y-%d-%m")
FormatYDM(t) == Pad4(t.y) \o <<"-">> \o Pad2(t.d) \o <<"-">> \o Pad2(t.m)

\* strftime("%Y-%m-%d")
FormatISO(t) == Pad4(t.y) \o <<"-">> \o Pad2(t.m) \o <<"-">> \o Pad2(t.d)

\* strftime("%H:%M") of a second of the day
FormatHM(sec) == Pad2(sec \div 3600) \o <<":">> \o Pad2((sec \div 60) % 60)

-----------------------------------------------------------------------------
(* Users, texts and the other inputs of the model. *)

\* Telegram user ids of the people talking to the bot
Owners == {1, 2}

\* the bot's own Telegram user id (the id in front of its token)
BotId == 3

Users == Owners \cup {BotId}

\* database files: events_user_<id>.db per user id, and events.db (0)
Files == Users \cup {0}

\* the label of the cancel button
CancelText == <<"<cancel>">>

\* the label of the add-event button
StartAddText == <<"<add>">>

\* the label of the my-events button
MyEventsText == <<"<list>">>

StartCommand == <<"/", "s", "t", "a", "r", "t">>

HelpCommand == <<"/", "h", "e", "l", "p">>

\* the text of a message that has none (a sticker, a photo): None
NoText == <<"<none>">>

Dentist == <<"D", "e", "n", "t", "i", "s", "t">>

Jam == <<" ", "J", "a", "m", " ">>

D14_06_2025 == <<"1", "4", ".", "0", "6", ".", "2", "0", "2", "5">>
D15_06_2025 == <<"1", "5", ".", "0", "6", ".", "2", "0", "2", "5">>
D16_6_2025 == <<" ", "1", "6", ".", "6", ".", "2", "0", "2", "5">>
D31_02_2025 == <<"3", "1", ".", "0", "2", ".", "2", "0", "2", "5">>
D31_04_2026 == <<"3", "1", ".", "0", "4", ".", "2", "0", "2", "6">>
Iso16 == <<"2", "0", "2", "5", "-", "0", "6", "-", "1", "6">>
Iso15 == <<"2", "0", "2", "5", "-", "0", "6", "-", "1", "5">>

T0700 == <<"0", "7", ":", "0", "0">>
T0900 == <<"0", "9", ":", "0", "0">>
T1200 == <<"1", "2", ":", "0", "0">>
T1500 == <<"1", "5", ":", "0", "0">>
T1800 == <<"1", "8", ":", "0", "0">>
T2100 == <<"2", "1", ":", "0", "0">>

\* the six time buttons of get_time_buttons
TimeChoices == {T0700, T0900, T1200, T1500, T1800, T2100}

T9_5 == <<" ", "9", ":", "5">>
T24_00 == <<"2", "4", ":", "0", "0">>
T0900NoColon == <<"0", "9", "0", "0">>

\* the day the model starts on: 2025-06-15
StartDay == Ordinal(2025, 6, 15)

\* get_today(), as an ordinal
get_today == now.day

\* get_current_time()
get_current_time == FormatHM(now.sec)

-----------------------------------------------------------------------------
(* The event store: one SQLite file per user.                              *)

\* get_db_path: the file of a user id; a false user id names the shared file
get_db_path(user_id) == IF user_id # 0 THEN user_id ELSE 0

Row(id, user_id, description, event_date, notify_time) ==
    [id |-> id, user_id |-> user_id, description |-> description,
     event_date |-> event_date, notify_time |-> notify_time]

\* the INSERT of save_event succeeds: the storage works (ok), and the
\* description, a NOT NULL column, is not None
Inserted(description, ok) == ok /\ description # NoText

\* the id save_event returns: the new row's id, 0 for None
save_event_id(user_id, description, ok) ==
    IF Inserted(description, ok) THEN dbSeq[get_db_path(user_id)] + 1 ELSE 0

\* an insert that leaves notify_time to the column's default
save_event_db_default_time(user_id, description, event_date, notify_time, ok) ==
    IF ok /\ description # NoText
    THEN [db EXCEPT ![get_db_path(user_id)] =
            @ \cup {Row(dbSeq[get_db_path(user_id)] + 1, user_id, description,
                        event_date, T0900)}]
    ELSE db

\* the events table of every file after save_event
save_event_db(user_id, description, event_date, notify_time, ok) ==
    IF Inserted(description, ok)
    THEN [db EXCEPT ![get_db_path(user_id)] =
            @ \cup {Row(dbSeq[get_db_path(user_id)] + 1, user_id, description,
                        event_date, notify_time)}]
    ELSE db

save_event_seq(user_id, description, ok) ==
    IF Inserted(description, ok)
    THEN [dbSeq EXCEPT ![get_db_path(user_id)] = @ + 1]
    ELSE dbSeq

\* the order of characters in event_date texts (ORDER BY event_date)
Alphabet == <<" ", "-", ".", "0", "1", "2", "3", "4", "5", "6", "7", "8", "9", ":">>

Rank(c) == IF \E i \in 1..Len(Alphabet) : Alphabet[i] = c
           THEN CHOOSE i \in 1..Len(Alphabet) : Alphabet[i] = c
           ELSE Len(Alphabet) + 1

RECURSIVE TextLess(_, _)
TextLess(a, b) ==
    IF b = <<>> THEN FALSE
    ELSE IF a = <<>> THEN TRUE
    ELSE IF Rank(Head(a)) # Rank(Head(b)) THEN Rank(Head(a)) < Rank(Head(b))
    ELSE TextLess(Tail(a), Tail(b))

RowBefore(r, s) ==
    \/ TextLess(r.event_date, s.event_date)
    \/ r.event_date = s.event_date /\ r.id < s.id

RECURSIVE OrderByDate(_)
OrderByDate(rows) ==
    IF rows = {} THEN <<>>
    ELSE LET first == CHOOSE r \in rows : \A s \in rows \ {r} : RowBefore(r, s)
         IN  <<first>> \o OrderByDate(rows \ {first})

\* get_user_events: the user's rows ordered by date; nothing when storage fails
get_user_events(user_id, ok) ==
    IF ok
    THEN OrderByDate({r \in db[get_db_path(user_id)] : r.user_id = user_id})
    ELSE <<>>

\* a lookup by id alone, in every file
get_event_by_id(event_id, user_id, ok) ==
    IF ok THEN {r \in UNION {db[f] : f \in Files} : r.id = event_id} ELSE {}

\* get_event: the rows with the id and the user id (one at most)
get_event(event_id, user_id, ok) ==
    IF ok
    THEN {r \in db[get_db_path(user_id)] : r.id = event_id /\ r.user_id = user_id}
    ELSE {}

\* a deletion by id alone, in every file
delete_event_by_id(event_id, user_id, ok) ==
    IF ok THEN [f \in Files |-> {r \in db[f] : r.id # event_id}] ELSE db

\* delete_event: the events table of every file afterwards
delete_event_db(event_id, user_id, ok) ==
    IF ok
    THEN [db EXCEPT ![get_db_path(user_id)] =
            {r \in @ : ~(r.id = event_id /\ r.user_id = user_id)}]
    ELSE db

\* a result that tells whether the statement ran
delete_event_ran(event_id, user_id, ok) == ok

\* delete_event's result: rowcount > 0
delete_event(event_id, user_id, ok) ==
    ok /\ \E r \in db[get_db_path(user_id)] : r.id = event_id /\ r.user_id = user_id

\* a query of the one file get_db_path(1)
get_events_of_first_file(notify_time) ==
    {r \in db[get_db_path(1)] : r.notify_time = notify_time}

\* get_events_for_specific_time: the rows of every user's file with the time
get_events_for_specific_time(notify_time) ==
    {r \in UNION {db[f] : f \in Files \ {0}} : r.notify_time = notify_time}

-----------------------------------------------------------------------------
(* The wizard: the message and callback handlers of EventStates.           *)
(* net: the Telegram call that sends the handler's response succeeds; when *)
(* it raises, the handler ends there.                                      *)

\* the FSM data dictionary after state.clear()
EmptyData == [k \in {} |-> <<>>]

\* state.update_data(k=v)
update_data(data, k, v) ==
    [x \in DOMAIN data \cup {k} |-> IF x = k THEN v ELSE data[x]]

\* no finalization in flight, no event saved in the pass
NoFlight == [u \in Owners |-> [open |-> {}, saved |-> 0]]

NoReply == [to |-> 0, kind |-> "none", rows |-> <<>>, first |-> "none"]

\* the last response of a handler whose sends succeed: to a chat, of a kind,
\* showing rows; a send that fails ends the handler, and delivers nothing
Answer(chat, kind, rows, net) ==
    IF net THEN [to |-> chat, kind |-> kind, rows |-> rows, first |-> "none"]
    ELSE reply

\* the same after an earlier message of the handler, of the kind first
AnswerAfter(first, answer, net) ==
    IF net THEN [answer EXCEPT !.first = first] ELSE reply

Sched == <<running, tasks, pc, readOk, curTime, curDay, queue, snap, outbox,
          reminded, wake, ticks>>

\* Command("start"): the text's first word is /start
IsStartCommand(text) ==
    /\ Len(text) >= Len(StartCommand)
    /\ SubSeq(text, 1, Len(StartCommand)) = StartCommand
    /\ Len(text) > Len(StartCommand) => text[Len(StartCommand) + 1] = " "

\* Command("start"), in every state: the first handler registered
cmd_start(u, net) ==
    /\ reply' = Answer(u, "welcome", <<>>, net)
    /\ UNCHANGED call
    /\ UNCHANGED <<fsmState, fsmData, db, dbSeq, now, Sched>>

\* F.text == the add-event label, in every state
start_add_event(u, net) ==
    /\ reply' = Answer(u, "ask_description", <<>>, net)
    /\ fsmState' = IF net THEN [fsmState EXCEPT ![u] = "waiting_description"]
                   ELSE fsmState
    /\ UNCHANGED call
    /\ UNCHANGED <<fsmData, db, dbSeq, now, Sched>>

\* waiting_description, F.text == the cancel label
cancel_adding(u, net) ==
    /\ fsmState[u] = "waiting_description"
    /\ fsmState' = [fsmState EXCEPT ![u] = "Idle"]
    /\ fsmData' = [fsmData EXCEPT ![u] = EmptyData]
    /\ reply' = Answer(u, "cancelled", <<>>, net)
    /\ UNCHANGED call
    /\ UNCHANGED <<db, dbSeq, now, Sched>>

\* a handler that asks for the time at once when the data holds a date
save_description_skipping(u, text, net) ==
    /\ fsmState[u] = "waiting_description"
    /\ text \notin {StartAddText, CancelText}
    /\ ~IsStartCommand(text)
    /\ fsmData' = [fsmData EXCEPT ![u] = update_data(@, "description", text)]
    /\ reply' = Answer(u, IF "event_date" \in DOMAIN fsmData[u] THEN "ask_time"
                          ELSE "ask_date", <<>>, net)
    /\ fsmState' = IF ~net THEN fsmState
                   ELSE IF "event_date" \in DOMAIN fsmData[u]
                   THEN [fsmState EXCEPT ![u] = "waiting_time"]
                   ELSE [fsmState EXCEPT ![u] = "waiting_date"]
    /\ UNCHANGED call
    /\ UNCHANGED <<db, dbSeq, now, Sched>>

\* a handler that stores the text without the blanks around it
save_description_stripped(u, text, net) ==
    /\ fsmState[u] = "waiting_description"
    /\ text \notin {StartAddText, CancelText}
    /\ ~IsStartCommand(text)
    /\ fsmData' = [fsmData EXCEPT ![u] = update_data(@, "description", Strip(text))]
    /\ reply' = Answer(u, "ask_date", <<>>, net)
    /\ fsmState' = IF net THEN [fsmState EXCEPT ![u] = "waiting_date"]
                   ELSE fsmState
    /\ UNCHANGED call
    /\ UNCHANGED <<db, dbSeq, now, Sched>>

\* waiting_description, any other text but /start
save_description(u, text, net) ==
    /\ fsmState[u] = "waiting_description"
    /\ text \notin {StartAddText, CancelText}
    /\ ~IsStartCommand(text)
    /\ fsmData' = [fsmData EXCEPT ![u] = update_data(@, "description", text)]
    /\ reply' = Answer(u, "ask_date", <<>>, net)
    /\ fsmState' = IF net THEN [fsmState EXCEPT ![u] = "waiting_date"]
                   ELSE fsmState
    /\ UNCHANGED call
    /\ UNCHANGED <<db, dbSeq, now, Sched>>

\* a message with the given text from a user in waiting_description: the
\* first handler registered whose filters take it handles it
description_turn(u, text, net) ==
    /\ fsmState[u] = "waiting_description"
    /\ IF IsStartCommand(text) THEN cmd_start(u, net)
       ELSE IF text = StartAddText THEN start_add_event(u, net)
       ELSE IF text = CancelText THEN cancel_adding(u, net)
       ELSE save_description(u, text, net)

\* a cancellation that resets the state tag and keeps the data
cancel_date_keeping_data(u, net) ==
    /\ fsmState[u] = "waiting_date"
    /\ fsmState' = [fsmState EXCEPT ![u] = "Idle"]
    /\ reply' = Answer(u, "cancelled", <<>>, net)
    /\ UNCHANGED call
    /\ UNCHANGED <<fsmData, db, dbSeq, now, Sched>>

\* a cancellation that empties the data and keeps the state tag
cancel_date_keeping_state(u, net) ==
    /\ fsmState[u] = "waiting_date"
    /\ fsmData' = [fsmData EXCEPT ![u] = EmptyData]
    /\ reply' = Answer(u, "cancelled", <<>>, net)
    /\ UNCHANGED call
    /\ UNCHANGED <<fsmState, db, dbSeq, now, Sched>>

\* waiting_date, F.text == the cancel label
cancel_date(u, net) ==
    /\ fsmState[u] = "waiting_date"
    /\ fsmState' = [fsmState EXCEPT ![u] = "Idle"]
    /\ fsmData' = [fsmData EXCEPT ![u] = EmptyData]
    /\ reply' = Answer(u, "cancelled", <<>>, net)
    /\ UNCHANGED call
    /\ UNCHANGED <<db, dbSeq, now, Sched>>

\* the date texts of the model, and what save_date's strip and strptime make
\* of each, computed once
DateTexts ==
    {D14_06_2025, D15_06_2025, D16_6_2025, D31_02_2025, D31_04_2026, Iso15, Iso16}

ParsedDates == [text \in DateTexts |-> StrptimeDMY(Strip(text))]

\* save_date's parse of the stripped text
ParsedDate(text) ==
    IF text \in DateTexts THEN ParsedDates[text] ELSE StrptimeDMY(Strip(text))

\* a test that takes today for the past
DateAcceptedAfterToday(text) ==
    /\ ParsedDate(text).ok
    /\ ~(DateOrd(ParsedDate(text)) <= get_today)

\* save_date's test that the date is not in the past
DateAccepted(text) ==
    /\ ParsedDate(text).ok
    /\ ~(DateOrd(ParsedDate(text)) < get_today)

\* waiting_date, any other text but /start
save_date(u, text, net) ==
    /\ fsmState[u] = "waiting_date"
    /\ text \notin {StartAddText, CancelText}
    /\ ~IsStartCommand(text)
    /\ IF ~ParsedDate(text).ok
       THEN /\ reply' = Answer(u, "date_format", <<>>, net)
            /\ UNCHANGED <<fsmState, fsmData>>
       ELSE IF ~DateAccepted(text)
       THEN /\ reply' = Answer(u, "date_passed", <<>>, net)
            /\ UNCHANGED <<fsmState, fsmData>>
       ELSE /\ fsmData' = [fsmData EXCEPT ![u] =
                   update_data(update_data(@, "event_date",
                                           FormatISO(ParsedDate(text))),
                               "display_date", Strip(text))]
            /\ reply' = Answer(u, "ask_time", <<>>, net)
            /\ fsmState' = IF net THEN [fsmState EXCEPT ![u] = "waiting_time"]
                           ELSE fsmState
    /\ UNCHANGED call
    /\ UNCHANGED <<db, dbSeq, now, Sched>>

\* history records of the calls that write to the store, with their results
NoCall == [op |-> "none"]

SaveCall(user_id, description, event_date, notify_time, result) ==
    [op |-> "save_event", user_id |-> user_id, description |-> description,
     event_date |-> event_date, notify_time |-> notify_time, result |-> result]

DeleteCall(event_id, user_id, result) ==
    [op |-> "delete_event", event_id |-> event_id, user_id |-> user_id,
     result |-> result]

\* the room the model leaves in a user's file for another event
CanCreate(u) == dbSeq[get_db_path(u)] < MaxId

\* a finalization that calls save_event again when it has failed, the
\* second call succeeding
process_event_creation_retrying(u, notify_time, ok, net) ==
    /\ {"description", "event_date"} \subseteq DOMAIN fsmData[u]
    /\ CanCreate(u)
    /\ UNCHANGED call
    /\ db' = save_event_db(u, fsmData[u]["description"],
                           fsmData[u]["event_date"], notify_time, TRUE)
    /\ dbSeq' = save_event_seq(u, fsmData[u]["description"], TRUE)
    /\ reply' =
         IF save_event_id(u, fsmData[u]["description"], TRUE) = 0
         THEN Answer(u, "save_failed", <<>>, net)
         ELSE Answer(u, "saved",
                     <<Row(save_event_id(u, fsmData[u]["description"], TRUE), u,
                           fsmData[u]["description"],
                           fsmData[u]["event_date"], notify_time)>>, net)
    /\ IF net
       THEN /\ fsmState' = [fsmState EXCEPT ![u] = "Idle"]
            /\ fsmData' = [fsmData EXCEPT ![u] = EmptyData]
       ELSE UNCHANGED <<fsmState, fsmData>>


\* process_event_creation: the final save. ok: the storage works
process_event_creation(u, notify_time, ok, net) ==
    IF ~({"description", "event_date"} \subseteq DOMAIN fsmData[u])
    THEN /\ reply' = Answer(u, "not_filled", <<>>, net)
         /\ IF net
            THEN /\ fsmState' = [fsmState EXCEPT ![u] = "Idle"]
                 /\ fsmData' = [fsmData EXCEPT ![u] = EmptyData]
            ELSE UNCHANGED <<fsmState, fsmData>>
         /\ UNCHANGED call
         /\ UNCHANGED <<db, dbSeq>>
    ELSE /\ ok => CanCreate(u)
         /\ UNCHANGED call
         /\ db' = save_event_db(u, fsmData[u]["description"],
                                fsmData[u]["event_date"], notify_time, ok)
         /\ dbSeq' = save_event_seq(u, fsmData[u]["description"], ok)
         /\ reply' =
              IF save_event_id(u, fsmData[u]["description"], ok) = 0
              THEN Answer(u, "save_failed", <<>>, net)
              ELSE Answer(u, "saved",
                          <<Row(save_event_id(u, fsmData[u]["description"], ok), u, fsmData[u]["description"],
                                fsmData[u]["event_date"], notify_time)>>, net)
         /\ IF net
            THEN /\ fsmState' = [fsmState EXCEPT ![u] = "Idle"]
                 /\ fsmData' = [fsmData EXCEPT ![u] = EmptyData]
            ELSE UNCHANGED <<fsmState, fsmData>>

\* waiting_time, callback data time_<t>
select_time(u, t, ok, net) ==
    /\ fsmState[u] = "waiting_time"
    /\ process_event_creation(u, t, ok, net)
    /\ UNCHANGED <<now, Sched>>

\* waiting_time, callback data custom_time
custom_time_request(u, net) ==
    /\ fsmState[u] = "waiting_time"
    /\ reply' = Answer(u, "ask_custom_time", <<>>, net)
    /\ UNCHANGED call
    /\ UNCHANGED <<fsmState, fsmData, db, dbSeq, now, Sched>>

\* the time texts of the model, and whether save_custom_time's strip and
\* strptime take each, computed once
TimeTexts == {T9_5, T24_00, T0900NoColon}

TimesTaken == [text \in TimeTexts |-> StrptimeHMOk(Strip(text))]

\* save_custom_time's parse of the stripped text succeeds
TimeAccepted(text) ==
    IF text \in TimeTexts THEN TimesTaken[text] ELSE StrptimeHMOk(Strip(text))

\* waiting_time, any text but the add-event label and /start
save_custom_time(u, text, ok, net) ==
    /\ fsmState[u] = "waiting_time"
    /\ text # StartAddText
    /\ ~IsStartCommand(text)
    /\ IF text = CancelText
       THEN /\ fsmState' = [fsmState EXCEPT ![u] = "Idle"]
            /\ fsmData' = [fsmData EXCEPT ![u] = EmptyData]
            /\ reply' = Answer(u, "cancelled", <<>>, net)
            /\ UNCHANGED call
            /\ UNCHANGED <<db, dbSeq>>
       ELSE IF TimeAccepted(text)
       THEN process_event_creation(u, Strip(text), ok, net)
       ELSE /\ reply' = Answer(u, "time_format", <<>>, net)
            /\ UNCHANGED call
            /\ UNCHANGED <<fsmState, fsmData, db, dbSeq>>
    /\ UNCHANGED <<now, Sched>>

-----------------------------------------------------------------------------
(* Browsing and deleting.                                                  *)

\* ids a callback may carry
EventIds == 1..MaxId

\* show_all_events(message): the list of message.from_user, sent to the chat
events_shown(from_user, chat, ok, net) ==
    IF get_user_events(from_user, ok) = <<>>
    THEN Answer(chat, "no_events", <<>>, net)
    ELSE Answer(chat, "events_list", get_user_events(from_user, ok), net)

\* F.text == the my-events label; a user inside the wizard never gets here,
\* the wizard's handlers are registered first
show_all_events(u, ok, net) ==
    /\ fsmState[u] = "Idle"
    /\ reply' = events_shown(u, u, ok, net)
    /\ UNCHANGED call
    /\ UNCHANGED <<fsmState, fsmData, db, dbSeq, now, Sched>>

\* F.text == the delete-event label
start_delete_event(u, ok, net) ==
    /\ fsmState[u] = "Idle"
    /\ reply' = IF get_user_events(u, ok) = <<>>
                THEN Answer(u, "no_events", <<>>, net)
                ELSE events_shown(u, u, ok, net)
    /\ UNCHANGED call
    /\ UNCHANGED <<fsmState, fsmData, db, dbSeq, now, Sched>>

\* callback data event_<id>
show_event_details(u, event_id, ok, net) ==
    /\ reply' = IF get_event(event_id, u, ok) = {}
                THEN Answer(u, "not_found", <<>>, net)
                ELSE Answer(u, "event_details",
                            <<CHOOSE r \in get_event(event_id, u, ok) : TRUE>>, net)
    /\ UNCHANGED call
    /\ UNCHANGED <<fsmState, fsmData, db, dbSeq, now, Sched>>

\* callback data back_to_events: show_all_events(callback.message), and the
\* sender of callback.message is the bot
return_to_events_list(u, ok, net) ==
    /\ reply' = events_shown(BotId, u, ok, net)
    /\ UNCHANGED call
    /\ UNCHANGED <<fsmState, fsmData, db, dbSeq, now, Sched>>

\* callback data delete_<id>
confirm_delete_event(u, event_id, net) ==
    /\ reply' = Answer(u, "confirm_delete", <<>>, net)
    /\ UNCHANGED call
    /\ UNCHANGED <<fsmState, fsmData, db, dbSeq, now, Sched>>

\* callback data confirm_delete_<id>
execute_delete_event(u, event_id, ok, net) ==
    /\ IF get_event(event_id, u, ok) # {}
       THEN /\ db' = delete_event_db(event_id, u, ok)
            /\ UNCHANGED call
            /\ reply' = IF delete_event(event_id, u, ok)
                        THEN AnswerAfter("deleted", events_shown(BotId, u, ok, net), net)
                        ELSE Answer(u, "delete_failed", <<>>, net)
       ELSE /\ db' = db
            /\ UNCHANGED call
            /\ reply' = Answer(u, "not_found", <<>>, net)
    /\ UNCHANGED <<fsmState, fsmData, dbSeq, now, Sched>>

-----------------------------------------------------------------------------
(* The bot's handlers, with an empty store and every user idle.            *)

SchedOff ==
    /\ running = FALSE
    /\ tasks = 0
    /\ pc = "off"
    /\ readOk = TRUE
    /\ curTime = <<>>
    /\ curDay = 0
    /\ queue = {}
    /\ snap = {}
    /\ outbox = {}
    /\ reminded = {}
    /\ wake = 0
    /\ ticks = 0

Init ==
    /\ fsmState = [u \in Owners |-> "Idle"]
    /\ fsmData = [u \in Owners |-> EmptyData]
    /\ db = [f \in Files |-> {}]
    /\ dbSeq = [f \in Files |-> 0]
    /\ now = [day |-> StartDay, sec |-> 0]
    /\ reply = NoReply
    /\ run = [u \in Owners |-> <<>>]
    /\ entered = [u \in Owners |-> {}]
    /\ flight = NoFlight
    /\ call = NoCall
    /\ SchedOff

\* history: the events saved in the pass of user u through the wizard: none
\* when the user is idle or asked for the description, else those saved
\* before and in this step; open are the finalizations in flight after it
Pass(u, open) ==
    flight' = [flight EXCEPT ![u] =
                 [open |-> open,
                  saved |-> IF fsmState'[u] \in {"Idle", "waiting_description"}
                            THEN 0
                            ELSE @.saved + Cardinality(db'[get_db_path(u)]
                                                         \ db[get_db_path(u)])]]

\* history: the turns of user u since a start-add received when idle with
\* an empty store, while they are the description, an accepted date and a
\* pressed time, each answered and saved; empty after any other turn
Ran(u, turns) ==
    /\ run' = [run EXCEPT ![u] = turns]
    /\ Pass(u, flight[u].open)

\* history: the fields of the FSM data that user u has entered since the
\* last start-add that was answered; none once the data is cleared
Entered(u, fields) == entered' = [entered EXCEPT ![u] = fields]

\* the history of a turn that enters nothing and is no part of a run
Aside(u) ==
    /\ Ran(u, <<>>)
    /\ Entered(u, IF fsmData'[u] = EmptyData THEN {} ELSE entered[u])

\* one turn of user u: a message or a callback, its texts drawn from the
\* sets given
Turn(u, descs, dates, pressed, times) ==
    \E net \in BOOLEAN :
        \/ cmd_start(u, net) /\ Aside(u)
        \/ /\ start_add_event(u, net)
           /\ Ran(u, IF net /\ fsmState[u] = "Idle" /\ db[get_db_path(u)] = {}
                     THEN <<StartAddText>> ELSE <<>>)
           /\ Entered(u, IF net THEN {} ELSE entered[u])
        \/ cancel_adding(u, net) /\ Aside(u)
        \/ \E text \in descs :
              /\ save_description(u, text, net)
              /\ Ran(u, IF net /\ Len(run[u]) = 1 THEN Append(run[u], text)
                        ELSE <<>>)
              /\ Entered(u, entered[u] \cup {"description"})
        \/ cancel_date(u, net) /\ Aside(u)
        \/ \E text \in dates :
              /\ save_date(u, text, net)
              /\ Ran(u, IF Len(run[u]) = 2 /\ fsmState'[u] = "waiting_time"
                        THEN Append(run[u], text) ELSE <<>>)
              /\ Entered(u, IF DateAccepted(text)
                            THEN entered[u] \cup {"event_date", "display_date"}
                            ELSE entered[u])
        \/ \E t \in pressed, ok \in BOOLEAN :
              /\ select_time(u, t, ok, net)
              /\ Ran(u, IF net /\ ok /\ Len(run[u]) = 3 THEN Append(run[u], t)
                        ELSE <<>>)
              /\ Entered(u, IF fsmData'[u] = EmptyData THEN {} ELSE entered[u])
        \/ custom_time_request(u, net) /\ Aside(u)
        \/ \E text \in times \cup {CancelText}, ok \in BOOLEAN :
              save_custom_time(u, text, ok, net) /\ Aside(u)
        \/ \E ok \in BOOLEAN : show_all_events(u, ok, net) /\ Aside(u)
        \/ \E ok \in BOOLEAN : start_delete_event(u, ok, net) /\ Aside(u)
        \/ \E id \in EventIds, ok \in BOOLEAN :
              show_event_details(u, id, ok, net) /\ Aside(u)
        \/ \E ok \in BOOLEAN : return_to_events_list(u, ok, net) /\ Aside(u)
        \/ \E id \in EventIds : confirm_delete_event(u, id, net) /\ Aside(u)
        \/ \E id \in EventIds, ok \in BOOLEAN :
              execute_delete_event(u, id, ok, net) /\ Aside(u)

\* Two users at once, each with one description, one past and one present
\* date, one time button and one malformed time text.
TurnOf(u) ==
    Turn(u, IF u = 1 THEN {Dentist} ELSE {Jam}, {D14_06_2025, D15_06_2025},
         {T1200}, {T24_00})

Next == \E u \in Owners : TurnOf(u)

Spec == Init /\ [][Next]_vars

\* process_event_creation up to its first send, for a time pressed or typed
\* by a user in waiting_time: the fields are read and the event is saved;
\* the handler then waits for Telegram, and other handlers run. Two presses
\* of one pass may each be given an id: there is room for one id more than
\* MaxId here
flight_begin(u, notify_time, ok) ==
    /\ fsmState[u] = "waiting_time"
    /\ Cardinality(flight[u].open) < MaxFlights
    /\ UNCHANGED <<fsmState, fsmData, now, reply, entered, call, Sched>>
    /\ IF ~({"description", "event_date"} \subseteq DOMAIN fsmData[u])
       THEN /\ [kind |-> "not_filled", rows |-> <<>>] \notin flight[u].open
            /\ UNCHANGED <<db, dbSeq>>
            /\ Pass(u, flight[u].open \cup {[kind |-> "not_filled", rows |-> <<>>]})
       ELSE LET description == fsmData[u]["description"]
                event_date == fsmData[u]["event_date"]
                event_id == save_event_id(u, description, ok)
                h == IF event_id = 0
                     THEN [kind |-> "save_failed", rows |-> <<>>]
                     ELSE [kind |-> "saved",
                           rows |-> <<Row(event_id, u, description, event_date,
                                          notify_time)>>]
            IN  /\ ok => dbSeq[get_db_path(u)] < MaxId + 1
                /\ h \notin flight[u].open
                /\ db' = save_event_db(u, description, event_date, notify_time, ok)
                /\ dbSeq' = save_event_seq(u, description, ok)
                /\ Pass(u, flight[u].open \cup {h})
    /\ run' = [run EXCEPT ![u] = <<>>]

\* the rest of process_event_creation: the response is sent, and
\* state.clear() follows when the send has not raised
flight_end(u, h, net) ==
    /\ h \in flight[u].open
    /\ UNCHANGED <<db, dbSeq, now, call, Sched>>
    /\ reply' = Answer(u, h.kind, h.rows, net)
    /\ IF net
       THEN /\ fsmState' = [fsmState EXCEPT ![u] = "Idle"]
            /\ fsmData' = [fsmData EXCEPT ![u] = EmptyData]
       ELSE UNCHANGED <<fsmState, fsmData>>
    /\ Pass(u, flight[u].open \ {h})
    /\ run' = [run EXCEPT ![u] = <<>>]
    /\ Entered(u, IF fsmData'[u] = EmptyData THEN {} ELSE entered[u])

\* One user whose turns are handled as tasks of their own: a finalization
\* waits for its response while the next turn is handled.
NextFlight ==
    \/ Turn(1, {Dentist}, {D15_06_2025}, {T0900}, {T24_00})
    \/ \E t \in {T0900, T1200}, ok \in BOOLEAN : flight_begin(1, t, ok)
    \/ \E h \in flight[1].open, net \in BOOLEAN : flight_end(1, h, net)

SpecFlight == Init /\ [][NextFlight]_vars

\* One user, with more texts: past, present and future dates, dates of no
\* calendar day and of another format, padded and unpadded times.
SoloDates == {D14_06_2025, D15_06_2025, D16_6_2025, D31_02_2025, D31_04_2026, Iso16}

SoloTimes == {T9_5, T24_00, T0900NoColon}

NextSolo == Turn(1, {Dentist, Jam}, SoloDates, {T0900, T1200}, SoloTimes)

SpecSolo == Init /\ [][NextSolo]_vars

\* One user, with more descriptions: one with blanks around it, a menu label
\* and a command whose handlers are registered after the wizard's, and no
\* text.
LabelDescriptions == {Jam, MyEventsText, HelpCommand, NoText}

NextLabels ==
    Turn(1, LabelDescriptions, {D14_06_2025, D15_06_2025}, {T0900}, {T24_00})

SpecLabels == Init /\ [][NextLabels]_vars

-----------------------------------------------------------------------------
(* The store alone: save_event and delete_event called with any arguments, *)
(* as the handlers and a test of the store would call them.                *)

\* ids a caller may pass to delete_event: those handed out and one more
DeleteIds == 1..(MaxId + 1)

\* save_event(user_id, description, event_date, notify_time)
StoreCreate(user_id, description, event_date, notify_time, ok) ==
    /\ ok => CanCreate(user_id)
    /\ db' = save_event_db(user_id, description, event_date, notify_time, ok)
    /\ dbSeq' = save_event_seq(user_id, description, ok)
    /\ call' = SaveCall(user_id, description, event_date, notify_time,
                        save_event_id(user_id, description, ok))
    /\ UNCHANGED <<fsmState, fsmData, now, reply, run, entered, flight, Sched>>

\* delete_event(event_id, user_id)
StoreDelete(event_id, user_id, ok) ==
    /\ db' = delete_event_db(event_id, user_id, ok)
    /\ call' = DeleteCall(event_id, user_id, delete_event(event_id, user_id, ok))
    /\ UNCHANGED <<fsmState, fsmData, dbSeq, now, reply, run, entered, flight, Sched>>

NextStore ==
    \E user_id \in Owners, ok \in BOOLEAN :
        \/ \E description \in {Dentist, NoText}, event_date \in {Iso15, Iso16},
              notify_time \in {T0900, T1200} :
              StoreCreate(user_id, description, event_date, notify_time, ok)
        \/ \E event_id \in DeleteIds : StoreDelete(event_id, user_id, ok)

SpecStore == Init /\ [][NextStore]_vars

-----------------------------------------------------------------------------
(* The reminder loop, check_and_send_reminders, around a midnight: the     *)
(* store holds events of earlier wizard runs, the loop starts at 23:59:30, *)
(* and the clock moves in steps of TickSeconds.                            *)

\* asyncio.sleep(60)
SleepSeconds == 60

DaySeconds == 24 * 3600

\* seconds since the midnight that began StartDay
NowAbs == (now.day - StartDay) * DaySeconds + now.sec

T2359 == <<"2", "3", ":", "5", "9">>
T0000 == <<"0", "0", ":", "0", "0">>

\* the sweep's parse of a stored date: ISO when the text has a dash
StoredDateOf(event_date_str) ==
    IF HasDash(event_date_str) THEN StrptimeYMD(event_date_str)
    ELSE StrptimeDMY(event_date_str)

\* the sweep's parse of each date text of the model, computed once
StoredDates == [text \in DateTexts |-> StoredDateOf(text)]

StoredDate(event_date_str) ==
    IF event_date_str \in DateTexts THEN StoredDates[event_date_str]
    ELSE StoredDateOf(event_date_str)

\* the difference taken the other way round
days_since(event_date_str) == get_today - DateOrd(StoredDate(event_date_str))

\* (event_date.date() - get_today()).days
days_left(event_date_str) == DateOrd(StoredDate(event_date_str)) - get_today

Send(to, kind, days, ok) == [to |-> to, kind |-> kind, days |-> days, ok |-> ok]

\* a body whose plain reminder follows every first send
SendsForWithPlain(r, ok1, ok2) ==
    IF days_left(r.event_date) < 0 THEN <<>>
    ELSE <<Send(r.user_id,
                IF days_left(r.event_date) > 0 THEN "countdown"
                ELSE "congratulation",
                days_left(r.event_date), ok1),
           Send(r.user_id, "fallback", 0, ok2)>>

\* a body that sends nothing for a date it cannot parse
SendsForParsedOnly(r, ok1, ok2) ==
    IF ~StoredDate(r.event_date).ok THEN <<>>
    ELSE IF days_left(r.event_date) < 0 THEN <<>>
    ELSE LET first == Send(r.user_id,
                           IF days_left(r.event_date) > 0 THEN "countdown"
                           ELSE "congratulation",
                           days_left(r.event_date), ok1)
         IN  IF ok1 THEN <<first>>
             ELSE <<first, Send(r.user_id, "fallback", 0, ok2)>>

\* the sends of the loop's body for one row. ok1: the first send succeeds;
\* ok2: the send of the handler of the inner try succeeds
SendsFor(r, ok1, ok2) ==
    IF ~StoredDate(r.event_date).ok
    THEN <<Send(r.user_id, "fallback", 0, ok2)>>
    ELSE IF days_left(r.event_date) < 0 THEN <<>>
    ELSE LET first == Send(r.user_id,
                           IF days_left(r.event_date) > 0 THEN "countdown"
                           ELSE "congratulation",
                           days_left(r.event_date), ok1)
         IN  IF ok1 THEN <<first>>
             ELSE <<first, Send(r.user_id, "fallback", 0, ok2)>>

\* while True: current_time = get_current_time(); the query, which returns
\* nothing when the storage fails (ok is false); sleep when it returns
\* nothing. The sleep before it has ended
sweep_begin(ok) ==
    /\ pc \in {"read", "sleep"}
    /\ pc = "sleep" => NowAbs >= wake
    /\ curTime' = get_current_time
    /\ curDay' = get_today
    /\ readOk' = (readOk /\ ok)
    /\ snap' = IF ok THEN get_events_for_specific_time(get_current_time) ELSE {}
    /\ queue' = snap'
    /\ outbox' = {}
    /\ IF snap' = {}
       THEN pc' = "sleep" /\ wake' = NowAbs + SleepSeconds
       ELSE pc' = "loop" /\ wake' = wake
    /\ UNCHANGED <<fsmState, fsmData, db, dbSeq, now, reply, run, entered, call, flight,
                   running, tasks, reminded, ticks>>

\* a body whose failed send ends the for loop
sweep_event_aborting(r, ok1, ok2) ==
    /\ pc = "loop"
    /\ r \in queue
    /\ queue' = IF SendsFor(r, ok1, ok2) # <<>> /\ ~ok1 THEN {} ELSE queue \ {r}
    /\ outbox' = outbox \cup {[row |-> r, today |-> get_today,
                                sends |-> SendsFor(r, ok1, ok2)]}
    /\ reminded' = IF SendsFor(r, ok1, ok2) = <<>> THEN reminded
                   ELSE reminded \cup {<<r.user_id, r.id, curDay>>}
    /\ UNCHANGED <<fsmState, fsmData, db, dbSeq, now, reply, run, entered, call, flight,
                   running, tasks, pc, readOk, curTime, curDay, snap, wake, ticks>>

\* a body without the outer try: an exception of the handler's send ends
\* the task
sweep_event_fatal(r, ok1, ok2) ==
    /\ pc = "loop"
    /\ r \in queue
    /\ queue' = queue \ {r}
    /\ outbox' = outbox \cup {[row |-> r, today |-> get_today,
                                sends |-> SendsFor(r, ok1, ok2)]}
    /\ reminded' = IF SendsFor(r, ok1, ok2) = <<>> THEN reminded
                   ELSE reminded \cup {<<r.user_id, r.id, curDay>>}
    /\ pc' = IF /\ SendsFor(r, ok1, ok2) # <<>>
                /\ ~SendsFor(r, ok1, ok2)[Len(SendsFor(r, ok1, ok2))].ok
             THEN "crashed" ELSE pc
    /\ UNCHANGED <<fsmState, fsmData, db, dbSeq, now, reply, run, entered, call, flight,
                   running, tasks, readOk, curTime, curDay, snap, wake, ticks>>

\* a body that removes an event whose day has passed
sweep_event_purging(r, ok1, ok2) ==
    /\ pc = "loop"
    /\ r \in queue
    /\ queue' = queue \ {r}
    /\ outbox' = outbox \cup {[row |-> r, today |-> get_today,
                                sends |-> SendsFor(r, ok1, ok2)]}
    /\ reminded' = IF SendsFor(r, ok1, ok2) = <<>> THEN reminded
                   ELSE reminded \cup {<<r.user_id, r.id, curDay>>}
    /\ db' = IF StoredDate(r.event_date).ok /\ days_left(r.event_date) < 0
             THEN [db EXCEPT ![get_db_path(r.user_id)] = @ \ {r}]
             ELSE db
    /\ UNCHANGED <<fsmState, fsmData, dbSeq, now, reply, run, entered, call, flight,
                   running, tasks, pc, readOk, curTime, curDay, snap, wake, ticks>>

\* the body of the for loop, for one of the rows fetched
sweep_event(r, ok1, ok2) ==
    /\ pc = "loop"
    /\ r \in queue
    /\ queue' = queue \ {r}
    /\ outbox' = outbox \cup {[row |-> r, today |-> get_today,
                                sends |-> SendsFor(r, ok1, ok2)]}
    /\ reminded' = IF SendsFor(r, ok1, ok2) = <<>> THEN reminded
                   ELSE reminded \cup {<<r.user_id, r.id, curDay>>}
    /\ UNCHANGED <<fsmState, fsmData, db, dbSeq, now, reply, run, entered, call, flight,
                   running, tasks, pc, readOk, curTime, curDay, snap, wake, ticks>>

\* a loop that reads the clock again as soon as the for loop has ended
sweep_end_without_sleep ==
    /\ pc = "loop"
    /\ queue = {}
    /\ pc' = "sleep"
    /\ wake' = NowAbs
    /\ UNCHANGED <<fsmState, fsmData, db, dbSeq, now, reply, run, entered, call, flight,
                   running, tasks, readOk, curTime, curDay, queue, snap, outbox,
                   reminded, ticks>>

\* the for loop has ended: asyncio.sleep(60)
sweep_end ==
    /\ pc = "loop"
    /\ queue = {}
    /\ pc' = "sleep"
    /\ wake' = NowAbs + SleepSeconds
    /\ UNCHANGED <<fsmState, fsmData, db, dbSeq, now, reply, run, entered, call, flight,
                   running, tasks, readOk, curTime, curDay, queue, snap, outbox,
                   reminded, ticks>>

\* a cancellation that the loop's handlers of Exception take for an error:
\* the loop goes on where it was
stop_reminders_swallowed ==
    /\ running
    /\ pc \in {"read", "loop", "sleep"}
    /\ running' = FALSE
    /\ UNCHANGED <<fsmState, fsmData, db, dbSeq, now, reply, run, entered, call, flight,
                   tasks, pc, readOk, curTime, curDay, queue, snap, outbox, reminded,
                   wake, ticks>>

\* stop_reminders: reminder_task.cancel() raises CancelledError, which is no
\* Exception, at the await the task is suspended at: before its first step,
\* in a send of the for loop or in the sleep; the task ends, and the flag
\* is reset
stop_reminders ==
    /\ running
    /\ pc \in {"read", "loop", "sleep"}
    /\ pc' = "done"
    /\ tasks' = tasks - 1
    /\ running' = FALSE
    /\ UNCHANGED <<fsmState, fsmData, db, dbSeq, now, reply, run, entered, call, flight,
                   readOk, curTime, curDay, queue, snap, outbox, reminded, wake,
                   ticks>>

\* a start that creates a task whatever the flag says
start_reminders_unguarded ==
    /\ running' = TRUE
    /\ tasks' = tasks + 1
    /\ pc' = "read"
    /\ curTime' = <<>>
    /\ curDay' = 0
    /\ queue' = {}
    /\ snap' = {}
    /\ outbox' = {}
    /\ wake' = 0
    /\ UNCHANGED <<fsmState, fsmData, db, dbSeq, now, reply, run, entered, call, flight,
                   readOk, reminded, ticks>>

\* start_reminders: when the flag is not set, sets it and creates the task,
\* which has read no clock yet; nothing otherwise
start_reminders ==
    /\ IF ~running
       THEN /\ running' = TRUE
            /\ tasks' = tasks + 1
            /\ pc' = "read"
            /\ curTime' = <<>>
            /\ curDay' = 0
            /\ queue' = {}
            /\ snap' = {}
            /\ outbox' = {}
            /\ wake' = 0
       ELSE UNCHANGED <<running, tasks, pc, curTime, curDay, queue, snap,
                        outbox, wake>>
    /\ UNCHANGED <<fsmState, fsmData, db, dbSeq, now, reply, run, entered, call, flight,
                   readOk, reminded, ticks>>

\* time passes; a sleep that has ended wakes the loop before more time passes
Tick ==
    /\ ticks < MaxTicks
    /\ pc = "sleep" => NowAbs < wake
    /\ pc # "read"
    /\ ticks' = ticks + 1
    /\ now' = IF now.sec + TickSeconds >= DaySeconds
              THEN [day |-> now.day + 1, sec |-> now.sec + TickSeconds - DaySeconds]
              ELSE [now EXCEPT !.sec = @ + TickSeconds]
    /\ UNCHANGED <<fsmState, fsmData, db, dbSeq, reply, run, entered, call, flight,
                   running, tasks, pc, readOk, curTime, curDay, queue, snap, outbox,
                   reminded, wake>>

\* the stores the loop may find: at most MaxRows events in all, dated today
\* or tomorrow, notified in the last or the first minute of the day
StoredRows(u, n) ==
    {Row(n, u, IF u = 1 THEN Dentist ELSE Jam, date, time) :
        date \in {Iso15, Iso16}, time \in {T2359, T0000}}

\* the tables of a file that holds ids 1..n
RECURSIVE TablesOf(_, _)
TablesOf(u, n) ==
    IF n = 0 THEN {{}}
    ELSE {rows \cup {r} : rows \in TablesOf(u, n - 1), r \in StoredRows(u, n)}

\* the state start_reminders leaves: the flag set, the task created
Started ==
    /\ fsmState = [u \in Owners |-> "Idle"]
    /\ fsmData = [u \in Owners |-> EmptyData]
    /\ now = [day |-> StartDay, sec |-> DaySeconds - 30]
    /\ reply = NoReply
    /\ run = [u \in Owners |-> <<>>]
    /\ entered = [u \in Owners |-> {}]
    /\ flight = NoFlight
    /\ call = NoCall
    /\ running = TRUE
    /\ tasks = 1
    /\ pc = "read"
    /\ readOk = TRUE
    /\ curTime = <<>>
    /\ curDay = 0
    /\ queue = {}
    /\ snap = {}
    /\ outbox = {}
    /\ reminded = {}
    /\ wake = 0
    /\ ticks = 0

InitSched ==
    /\ \E n1 \in 0..MaxRows :
          \E n2 \in 0..(MaxRows - n1) :
             /\ dbSeq = [f \in Files |-> IF f = 1 THEN n1 ELSE IF f = 2 THEN n2 ELSE 0]
             /\ \E s1 \in TablesOf(1, n1), s2 \in TablesOf(2, n2) :
                   db = [f \in Files |-> IF f = 1 THEN s1 ELSE IF f = 2 THEN s2 ELSE {}]
    /\ Started

NextSched ==
    \/ \E ok \in BOOLEAN : sweep_begin(ok)
    \/ \E r \in queue, ok1 \in BOOLEAN, ok2 \in BOOLEAN : sweep_event(r, ok1, ok2)
    \/ sweep_end
    \/ stop_reminders
    \/ Tick

SpecSched == InitSched /\ [][NextSched]_vars

\* The handlers and the reminder loop together: one user, who types the
\* time of the first minute of the day, while the loop runs from 23:59:30
\* with an empty store.
InitBoth ==
    /\ db = [f \in Files |-> {}]
    /\ dbSeq = [f \in Files |-> 0]
    /\ Started

NextBoth ==
    \/ Turn(1, {Dentist}, {D15_06_2025}, {T0900}, {T0000})
    \/ NextSched

SpecBoth == InitBoth /\ [][NextBoth]_vars

\* stores with a date the sweep cannot parse: at most one event per owner,
\* notified in the first minute of the day, dated tomorrow or on a day that
\* no calendar has
LiveTables(u) ==
    {{}} \cup {{Row(1, u, IF u = 1 THEN Dentist ELSE Jam, date, T0000)} :
                  date \in {Iso16, D31_02_2025}}

InitLive ==
    /\ \E s1 \in LiveTables(1), s2 \in LiveTables(2) :
          /\ db = [f \in Files |-> IF f = 1 THEN s1 ELSE IF f = 2 THEN s2 ELSE {}]
          /\ dbSeq = [f \in Files |-> Cardinality(db[f])]
    /\ Started

\* the event loop resumes the task when what it awaits is over: the query
\* returns, a send returns or raises, the sleep ends
LoopRuns ==
    /\ WF_vars(\E ok \in BOOLEAN : sweep_begin(ok))
    /\ WF_vars(\E r \in queue, ok1 \in BOOLEAN, ok2 \in BOOLEAN :
                  sweep_event(r, ok1, ok2))
    /\ WF_vars(sweep_end)

SpecLive == InitLive /\ [][NextSched]_vars /\ LoopRuns

\* The loop started and stopped at will: the process before start_reminders,
\* half a minute before midnight, with the stores of InitLive.
InitStartup ==
    /\ \E s1 \in LiveTables(1), s2 \in LiveTables(2) :
          /\ db = [f \in Files |-> IF f = 1 THEN s1 ELSE IF f = 2 THEN s2 ELSE {}]
          /\ dbSeq = [f \in Files |-> Cardinality(db[f])]
    /\ fsmState = [u \in Owners |-> "Idle"]
    /\ fsmData = [u \in Owners |-> EmptyData]
    /\ now = [day |-> StartDay, sec |-> DaySeconds - 30]
    /\ reply = NoReply
    /\ run = [u \in Owners |-> <<>>]
    /\ entered = [u \in Owners |-> {}]
    /\ flight = NoFlight
    /\ call = NoCall
    /\ SchedOff

NextStartStop ==
    \/ start_reminders
    \/ NextSched

SpecStartStop == InitStartup /\ [][NextStartStop]_vars

-----------------------------------------------------------------------------
(* What the texts of the model mean, written out one by one.               *)

\* the calendar day a date text names, as an ordinal; 0 when it names none
EnteredDay(text) ==
    CASE text = D14_06_2025 -> StartDay - 1
      [] text = D15_06_2025 -> StartDay
      [] text = D16_6_2025 -> StartDay + 1
      [] OTHER -> 0

\* the ISO form of the day a date text names
IsoOf(text) ==
    CASE text = D15_06_2025 -> Iso15
      [] text = D16_6_2025 -> Iso16
      [] OTHER -> <<>>

\* the day a stored ISO date names
EventDay(event_date) ==
    CASE event_date = Iso15 -> StartDay
      [] event_date = Iso16 -> StartDay + 1
      [] OTHER -> 0

\* date texts that name no calendar day, or are not in day.month.year form
MalformedDates == {D31_02_2025, D31_04_2026, Iso16}

\* time texts that name no time of the day, or are not in hour:minute form
MalformedTimes == {T24_00, T0900NoColon}

\* the files of the people talking to the bot
OwnerRows == UNION {db[get_db_path(u)] : u \in Owners}

-----------------------------------------------------------------------------
(* C1..C10 *)

\* C1: read isolation. In every reachable store, get_user_events(A) and
\* get_event(id, A) return only rows whose owner is A, for every id, also an
\* id that another owner's file holds; an event is stored under the owner who
\* created it, and what a list or a details view shows to a chat are that
\* chat's own events.
C1_ReadIsolation ==
    /\ \A a \in Owners, ok \in BOOLEAN :
          /\ \A i \in 1..Len(get_user_events(a, ok)) :
                /\ get_user_events(a, ok)[i].user_id = a
                /\ get_user_events(a, ok)[i] \in db[get_db_path(a)]
          /\ \A id \in EventIds : \A r \in get_event(id, a, ok) :
                r.user_id = a /\ r \in db[get_db_path(a)]
    /\ \A f \in Files : \A r \in db[f] : f = get_db_path(r.user_id)
    /\ reply.kind \in {"saved", "events_list", "event_details"}
          => \A i \in 1..Len(reply.rows) : reply.rows[i].user_id = reply.to

\* owner 1 was shown the details of its event 1 while owner 2's file holds
\* an event with the same id
C1_Witness ==
    /\ reply.kind = "event_details"
    /\ reply.to = 1
    /\ reply.rows[1].id = 1
    /\ \E r \in db[get_db_path(2)] : r.id = 1 /\ r.user_id = 2

\* C2: delete isolation. A step leaves the events of every file but owner
\* A's as they were, or it is no turn of A: no turn of owner A, a confirmed
\* deletion by id included, changes the events of another owner, also when
\* the id is the id of one of the other owner's events.
C2_DeleteIsolation ==
    [][\A a \in Owners :
          \/ \A f \in Files \ {get_db_path(a)} : db'[f] = db[f]
          \/ ~TurnOf(a)]_vars

\* owner 1 has deleted its event 1 (the list that follows the deletion
\* message is empty), and owner 2 still has its event 1
C2_Witness ==
    /\ reply.first = "deleted"
    /\ reply.to = 1
    /\ dbSeq[get_db_path(1)] = 1
    /\ db[get_db_path(1)] = {}
    /\ \E r \in db[get_db_path(2)] : r.id = 1 /\ r.user_id = 2

\* C3: the wizard's happy path. After start-add received when idle with an
\* empty store, a description d, a valid date text that is not past and a
\* pressed time t, each turn answered and the save succeeding, the owner's
\* file holds exactly one event, with description d, the ISO form of the date
\* entered and notify_time t, and get_user_events returns exactly that event.
C3_HappyPath ==
    \A u \in Owners :
        Len(run[u]) = 4 =>
            /\ Cardinality(db[get_db_path(u)]) = 1
            /\ \A r \in db[get_db_path(u)] :
                  /\ r.user_id = u
                  /\ r.description = run[u][2]
                  /\ r.event_date = IsoOf(run[u][3])
                  /\ r.notify_time = run[u][4]
                  /\ get_user_events(u, TRUE) = <<r>>

\* the run "Dentist", " 16.6.2025", 09:00 has just ended
C3_Witness ==
    /\ run[1] = <<StartAddText, Dentist, D16_6_2025, T0900>>
    /\ reply.kind = "saved"

\* what a rejected input leaves alone
Kept(u) ==
    /\ fsmState'[u] = fsmState[u]
    /\ fsmData'[u] = fsmData[u]
    /\ db' = db
    /\ dbSeq' = dbSeq

\* C4: validation errors are recoverable in place. A date text that is
\* malformed or names no calendar day, or a past date, in waiting_date, and a
\* malformed time text in waiting_time, are answered with the error message,
\* and leave the state tag, every field of the FSM data and the store as
\* they were.
C4_ErrorsInPlace ==
    [][\A u \in Owners, net \in BOOLEAN :
          /\ \A text \in MalformedDates :
                save_date(u, text, net)
                    => Kept(u) /\ (net => reply'.kind = "date_format")
          /\ \A text \in {D14_06_2025} :
                save_date(u, text, net)
                    => Kept(u) /\ (net => reply'.kind = "date_passed")
          /\ \A text \in MalformedTimes, ok \in BOOLEAN :
                save_custom_time(u, text, ok, net)
                    => Kept(u) /\ (net => reply'.kind = "time_format")]_vars

\* a date of no calendar day was rejected in waiting_date with the three
\* fields collected before still there
C4_Witness ==
    /\ reply.kind = "date_format"
    /\ fsmState[1] = "waiting_date"
    /\ DOMAIN fsmData[1] = {"description", "event_date", "display_date"}

\* C5: the past-date boundary. In waiting_date a well-formed date, its
\* answer delivered, is rejected (the state stays waiting_date) exactly when
\* its day is before today; today's date and a later one move the wizard to
\* waiting_time with the ISO date in the FSM data.
C5_PastDateBoundary ==
    [][\A u \in Owners :
          \A text \in {D14_06_2025, D15_06_2025, D16_6_2025} :
              save_date(u, text, TRUE) =>
                  IF EnteredDay(text) < get_today
                  THEN /\ fsmState'[u] = "waiting_date"
                       /\ fsmData'[u] = fsmData[u]
                       /\ reply'.kind = "date_passed"
                  ELSE /\ fsmState'[u] = "waiting_time"
                       /\ fsmData'[u]["event_date"] = IsoOf(text)
                       /\ reply'.kind = "ask_time"]_vars

\* today's date was entered and accepted
C5_Witness ==
    /\ get_today = EnteredDay(D15_06_2025)
    /\ run[1] = <<StartAddText, Dentist, D15_06_2025>>
    /\ fsmState[1] = "waiting_time"
    /\ fsmData[1]["event_date"] = Iso15
    /\ reply.kind = "ask_time"

\* C6: cancellation. The cancel label received in waiting_description,
\* waiting_date or waiting_time makes the user idle, empties the FSM data
\* whatever it held, and leaves the store as it was.
C6_Cancellation ==
    [][\A u \in Owners, net \in BOOLEAN :
          (\/ cancel_adding(u, net)
           \/ cancel_date(u, net)
           \/ \E ok \in BOOLEAN : save_custom_time(u, CancelText, ok, net))
          => /\ fsmState[u] \in {"waiting_description", "waiting_date",
                                 "waiting_time"}
             /\ fsmState'[u] = "Idle"
             /\ fsmData'[u] = EmptyData
             /\ db' = db
             /\ dbSeq' = dbSeq]_vars

\* a cancellation was answered, the user is idle without data or events
C6_Witness ==
    /\ reply.kind = "cancelled"
    /\ reply.to = 1
    /\ fsmState[1] = "Idle"
    /\ fsmData[1] = EmptyData
    /\ db[get_db_path(1)] = {}

\* the kinds of the messages sent for a handled event
KindsOf(x) == {x.sends[i].kind : i \in 1..Len(x.sends)}

\* C7: day-delta classification. For every event a sweep handles, with
\* days_left the event's day minus the day on which it is handled: a
\* countdown is sent if and only if days_left > 0, and carries days_left; the
\* congratulation is sent if and only if days_left = 0; nothing is sent when
\* days_left < 0.
C7_DayDelta ==
    \A x \in outbox :
        LET dl == EventDay(x.row.event_date) - x.today
        IN  /\ ("countdown" \in KindsOf(x)) <=> (dl > 0)
            /\ ("congratulation" \in KindsOf(x)) <=> (dl = 0)
            /\ \A i \in 1..Len(x.sends) :
                  x.sends[i].kind = "countdown" => x.sends[i].days = dl
            /\ dl < 0 => x.sends = <<>>
            /\ dl >= 0 => x.sends # <<>> /\ x.sends[1].kind # "fallback"

\* one sweep sent the congratulation for an event dated today and the
\* countdown with one day left for an event dated tomorrow
C7_Witness ==
    \E x \in outbox, y \in outbox :
        /\ EventDay(x.row.event_date) = x.today
        /\ x.sends[1].kind = "congratulation"
        /\ EventDay(y.row.event_date) = y.today + 1
        /\ y.sends[1].kind = "countdown"
        /\ y.sends[1].days = 1

\* C8: time-match exactness with fan-out. What the sweep's query returned
\* for the time it read are exactly the events of all owners' files whose
\* notify_time is that time: every owner's matching event is there, and no
\* event notified in another minute is.
C8_TimeMatch ==
    (pc \in {"loop", "sleep"} /\ readOk) =>
        /\ snap \subseteq OwnerRows
        /\ \A r \in OwnerRows : (r \in snap) <=> (r.notify_time = curTime)

\* the query for 00:00 returned the event of owner 2 and left out the event
\* of owner 1, notified at 23:59
C8_Witness ==
    /\ pc = "loop"
    /\ curTime = T0000
    /\ \E r \in snap : r.user_id = 2
    /\ \E r \in db[get_db_path(1)] : r.notify_time = T2359 /\ r \notin snap

\* every send of the sweep succeeded
AllSent == \A x \in outbox : \A i \in 1..Len(x.sends) : x.sends[i].ok

\* C9: sends per sweep. When a sweep that read the time t has ended with
\* every send succeeding, each stored event whose notify_time is t was
\* handled once, and exactly one message was sent for it, to its owner, when
\* its date was not before the day on which it was handled, and none
\* otherwise; no message was sent for an event with another notify_time.
C9_SendsPerSweep ==
    (pc = "sleep" /\ curTime # <<>> /\ readOk /\ AllSent) =>
        /\ \A x \in outbox : x.row \in OwnerRows
        /\ \A u \in Owners : \A r \in db[get_db_path(u)] :
              LET handled == {x \in outbox : x.row = r}
              IN  IF r.notify_time = curTime
                  THEN /\ Cardinality(handled) = 1
                       /\ \A x \in handled :
                             IF EventDay(r.event_date) >= x.today
                             THEN Len(x.sends) = 1 /\ x.sends[1].to = u
                             ELSE x.sends = <<>>
                  ELSE handled = {}

\* two events of two owners at the same time: the sweep has ended with two
\* sends, one to each owner
C9_Witness ==
    /\ pc = "sleep"
    /\ AllSent
    /\ \E x \in outbox, y \in outbox :
          /\ x.row.user_id = 1 /\ Len(x.sends) = 1 /\ x.sends[1].to = 1
          /\ y.row.user_id = 2 /\ Len(y.sends) = 1 /\ y.sends[1].to = 2

\* the minutes of the day around the midnight of the model
MinutesNear == {23 * 60 + 59, 0, 1}

\* the time at which the loop started, in seconds since the midnight that
\* began StartDay
StartedAt == NowAbs - ticks * TickSeconds

\* C10: daily delivery. For every stored event and every day up to its
\* date, once the minute of its notify_time has passed on that day, with the
\* loop running since before the minute began and no sweep under way, a
\* reminder for the event was sent, or tried, by a sweep that read the clock
\* on that day.
C10_DailyDelivery ==
    \A u \in Owners : \A r \in db[get_db_path(u)] :
        \A d \in {StartDay, StartDay + 1}, m \in MinutesNear :
            LET began == (d - StartDay) * DaySeconds + m * 60
            IN  (/\ FormatHM(m * 60) = r.notify_time
                 /\ d <= EventDay(r.event_date)
                 /\ StartedAt <= began
                 /\ NowAbs >= began + 60
                 /\ pc = "sleep"
                 /\ readOk)
                => <<u, r.id, d>> \in reminded

-----------------------------------------------------------------------------
(* C11..C20 *)

\* C11: round trip. Right after save_event(owner, description, date, time)
\* has returned an id, get_event(id, owner) yields one event, with exactly
\* that id, description, date and time.
C11_RoundTrip ==
    (call.op = "save_event" /\ call.result # 0) =>
        get_event(call.result, call.user_id, TRUE)
            = {Row(call.result, call.user_id, call.description,
                   call.event_date, call.notify_time)}

\* owner 2 has just saved an event at 12:00 under the id 1, which owner 1's
\* file holds too
C11_Witness ==
    /\ call.op = "save_event"
    /\ call.result = 1
    /\ call.user_id = 2
    /\ call.notify_time = T1200
    /\ \E r \in db[get_db_path(1)] : r.id = 1

\* C12: delete of a missing event. delete_event(id, owner) for a pair that
\* is not in the store returns false and leaves every file as it was; for a
\* pair that is there, the storage working, it returns true, and the same
\* call right after it returns false.
C12_DeleteMissing ==
    [][\A event_id \in DeleteIds, user_id \in Owners, ok \in BOOLEAN :
          StoreDelete(event_id, user_id, ok) =>
              LET there == \E r \in db[get_db_path(user_id)] :
                              r.id = event_id /\ r.user_id = user_id
              IN  /\ ~there => call'.result = FALSE /\ db' = db
                  /\ (there /\ ok) => call'.result = TRUE
                  /\ call = DeleteCall(event_id, user_id, TRUE)
                        => call'.result = FALSE /\ db' = db]_vars

\* owner 1's event 1 is gone, a delete of it has just returned false, and
\* owner 2's event 1 is still there
C12_Witness ==
    /\ call = DeleteCall(1, 1, FALSE)
    /\ dbSeq[get_db_path(1)] = 1
    /\ db[get_db_path(1)] = {}
    /\ \E r \in db[get_db_path(2)] : r.id = 1

\* the first message of a handled event failed to go out
FirstFailed(x) == x.sends # <<>> /\ ~x.sends[1].ok

\* C13: delivery-failure isolation. When a sweep has ended, whichever of
\* its sends failed, every stored event with the time read was handled once,
\* its own first message being the one its date calls for, sent to its
\* owner, and the only one when it went out; and no step of a sweep changes
\* the store.
C13_FailureIsolation ==
    /\ [](pc = "sleep" /\ curTime # <<>> /\ readOk =>
            \A r \in OwnerRows :
                r.notify_time = curTime =>
                    /\ Cardinality({x \in outbox : x.row = r}) = 1
                    /\ \A x \in outbox :
                          (x.row = r /\ EventDay(r.event_date) >= x.today) =>
                              /\ x.sends # <<>>
                              /\ x.sends[1].to = r.user_id
                              /\ x.sends[1].kind =
                                    IF EventDay(r.event_date) > x.today
                                    THEN "countdown" ELSE "congratulation"
                              /\ x.sends[1].ok => Len(x.sends) = 1)
    /\ [][(db' = db /\ dbSeq' = dbSeq) \/ pc # "loop"]_vars

\* a sweep has ended in which the message for one event failed and the
\* message for another went out
C13_Witness ==
    /\ pc = "sleep"
    /\ readOk
    /\ \E x \in outbox, y \in outbox :
          /\ x.row # y.row
          /\ FirstFailed(x)
          /\ y.sends # <<>> /\ y.sends[1].ok /\ Len(y.sends) = 1

\* C14: no retry of a failed delivery. For every event a sweep handles at
\* most one send is attempted: when its countdown or its congratulation
\* fails, no second message for it is tried in that sweep.
C14_NoRetry ==
    \A x \in outbox :
        /\ Len(x.sends) <= 1
        /\ FirstFailed(x) => \A i \in 2..Len(x.sends) : x.sends[i].to # x.row.user_id

\* C15: the loop survives every error. Whatever failed in it - the query,
\* the parse of a stored date, a send, the send of the handler - a sweep
\* under way ends in the loop's sleep, and when the sleep is over the loop
\* reads the clock again; the task ends by stop_reminders alone.
C15_LoopSurvives ==
    /\ (pc = "loop") ~> (pc \in {"sleep", "done"})
    /\ (pc = "sleep" /\ NowAbs >= wake)
          ~> (pc = "loop" \/ (pc = "sleep" /\ NowAbs < wake) \/ pc = "done")
    /\ [][pc' \in {"read", "loop", "sleep"} \/ pc = "done"
            \/ (running /\ ~running')]_vars

\* after a sweep whose query failed, a sweep has ended in the sleep in which
\* a stored date did not parse and the handler's send failed, and the send
\* for another event and the handler's send after it failed
C15_Witness ==
    /\ pc = "sleep"
    /\ running
    /\ ~readOk
    /\ \E x \in outbox, y \in outbox :
          /\ ~StoredDate(x.row.event_date).ok
          /\ Len(x.sends) = 1 /\ x.sends[1].kind = "fallback" /\ ~x.sends[1].ok
          /\ StoredDate(y.row.event_date).ok
          /\ Len(y.sends) = 2 /\ ~y.sends[1].ok /\ ~y.sends[2].ok

\* the time texts that save_custom_time takes for a time
TakenTimes == {text \in SoloTimes : TimeAccepted(text)}

\* C16: finalization always ends in Idle. Every run of
\* process_event_creation, from a pressed time or from a time typed in,
\* whether a field is missing, the save fails or the save succeeds, leaves
\* the user idle with the FSM data empty, so that the same data cannot be
\* finalized a second time.
C16_FinalizationEndsIdle ==
    [][\A u \in Owners :
          \/ fsmState'[u] = "Idle" /\ fsmData'[u] = EmptyData
          \/ ~\E ok \in BOOLEAN, net \in BOOLEAN :
                 \/ \E t \in TimeChoices : select_time(u, t, ok, net)
                 \/ \E text \in TakenTimes :
                        save_custom_time(u, text, ok, net)]_vars

\* C17: storage failure at creation. When save_event fails in a
\* finalization whose response is delivered, the step adds no event to any
\* file and hands out no id (the one call is not repeated), the user is
\* sent the failure message, and the user is idle with the FSM data empty.
C17_StorageFailure ==
    [][\A u \in Owners, ok \in BOOLEAN :
          \/ /\ db' = db
             /\ dbSeq' = dbSeq
             /\ reply' = [to |-> u, kind |-> "save_failed", rows |-> <<>>,
                          first |-> "none"]
             /\ fsmState'[u] = "Idle"
             /\ fsmData'[u] = EmptyData
          \/ ~({"description", "event_date"} \subseteq DOMAIN fsmData[u])
          \/ Inserted(fsmData[u]["description"], ok)
          \/ ~(\/ \E t \in TimeChoices : select_time(u, t, ok, TRUE)
               \/ \E text \in TakenTimes :
                      save_custom_time(u, text, ok, TRUE))]_vars

\* the user was told that the event could not be saved, and is idle without
\* data, no event stored and no id handed out
C17_Witness ==
    /\ reply.kind = "save_failed"
    /\ reply.to = 1
    /\ fsmState[1] = "Idle"
    /\ fsmData[1] = EmptyData
    /\ db[get_db_path(1)] = {}
    /\ dbSeq[get_db_path(1)] = 0

\* C18: scheduler cancellation. Once stop_reminders is over the flag is
\* false and the task has ended: no clock is read, no event handled and no
\* message sent any more; and the step that resets the flag, taken while the
\* task sleeps or is in a sweep, ends the task there.
C18_Cancellation ==
    /\ [](pc = "done" => ~running)
    /\ [][pc # "done"
            \/ /\ pc' = "done"
               /\ ~running'
               /\ <<curTime, curDay, queue, snap, outbox, reminded, wake>>'
                     = <<curTime, curDay, queue, snap, outbox, reminded, wake>>]_vars
    /\ [][~(running /\ ~running') \/ pc' = "done"]_vars

\* the task was cancelled in a sweep, after the message for one event and
\* before the next event; time has passed since, and the other event is
\* still waiting
C18_Witness ==
    /\ pc = "done"
    /\ ~running
    /\ outbox # {}
    /\ queue # {}
    /\ ticks = MaxTicks

\* the text is the description in the FSM data of u after the step
Described(u, text) ==
    /\ "description" \in DOMAIN fsmData'[u]
    /\ fsmData'[u]["description"] = text

\* C19 as stated: in waiting_description every text but the cancel label,
\* the add-event label and /start among them, becomes the description as
\* it is, and the answered turn moves the user to waiting_date.
C19_EveryText ==
    [][\A u \in Owners :
          \A text \in LabelDescriptions \cup {StartAddText, StartCommand} :
              \/ Described(u, text) /\ fsmState'[u] = "waiting_date"
              \/ ~description_turn(u, text, TRUE)]_vars

\* C19, amended: in waiting_description every text but the cancel label,
\* the add-event label and the /start command - a plain text, the label of
\* another menu button, another command, no text at all - becomes the
\* description as it is, and the answered turn moves the user to
\* waiting_date; the add-event label and /start store nothing and leave
\* the user in waiting_description.
C19_OtherTexts ==
    [][\A u \in Owners :
          /\ \A text \in LabelDescriptions :
                /\ \/ Described(u, text) /\ fsmState'[u] = "waiting_date"
                   \/ ~description_turn(u, text, TRUE)
                /\ \/ Described(u, text)
                   \/ ~description_turn(u, text, FALSE)
          /\ \A text \in {StartAddText, StartCommand} :
                \/ fsmData'[u] = fsmData[u] /\ fsmState'[u] = "waiting_description"
                \/ ~description_turn(u, text, TRUE)]_vars

\* the label of the list button was taken for a description, and the date
\* was asked for
C19_Witness ==
    /\ fsmState[1] = "waiting_date"
    /\ reply.kind = "ask_date"
    /\ fsmData[1] = [description |-> MyEventsText]

\* the fields save_description and save_date put into the FSM data
WizardFields == {"description", "event_date", "display_date"}

\* C20: restart is last-writer-wins. The add-event label, its prompt sent,
\* puts the user in waiting_description from every state of the wizard; a
\* user who is asked for the date has entered the description since then,
\* a user who is asked for the time has entered all the fields since then,
\* and every event stored is made of the description and the date entered
\* since then.
C20_Restart ==
    /\ [](\A u \in Owners :
            /\ fsmState[u] = "waiting_date" => "description" \in entered[u]
            /\ fsmState[u] = "waiting_time" => WizardFields \subseteq entered[u])
    /\ [][\A u \in Owners :
            /\ fsmState'[u] = "waiting_description" \/ ~start_add_event(u, TRUE)
            /\ \/ db'[get_db_path(u)] \subseteq db[get_db_path(u)]
               \/ /\ WizardFields \subseteq entered[u]
                  /\ \A r \in db'[get_db_path(u)] \ db[get_db_path(u)] :
                        /\ r.description = fsmData[u]["description"]
                        /\ r.event_date = fsmData[u]["event_date"]]_vars

\* after a restart in waiting_time a new description was entered; the date
\* entered before the restart is still in the FSM data, and the date is
\* asked for again
C20_Witness ==
    /\ fsmState[1] = "waiting_date"
    /\ reply.kind = "ask_date"
    /\ entered[1] = {"description"}
    /\ fsmData[1]["description"] = Jam
    /\ DOMAIN fsmData[1] = WizardFields

-----------------------------------------------------------------------------
(* C21..C28 *)

\* the minutes of the day the clock of the model can show
ClockMinutes == MinutesNear \cup {2, 3}

\* the minute a read of the clock fell in, counted from the midnight that
\* began StartDay
ReadMinute(day, time) ==
    (day - StartDay) * 24 * 60
        + (CHOOSE m \in ClockMinutes : FormatHM(m * 60) = time)

\* C21: per-minute idempotence. Every read of the clock after the first
\* falls in a later minute than the read before it, so that no two sweeps
\* of a run read the same time on the same day; and within a sweep no event
\* is handled twice.
C21_PerMinute ==
    /\ [](\A x \in outbox, y \in outbox : x.row = y.row => x = y)
    /\ [][\/ curTime = <<>>
          \/ ~(\E ok \in BOOLEAN : sweep_begin(ok))
          \/ ReadMinute(curDay', curTime') > ReadMinute(curDay, curTime)]_vars

\* the sweep of 23:59 sent a reminder, and so did the sweep of 00:00 of the
\* next day
C21_Witness ==
    /\ pc = "sleep"
    /\ curTime = T0000
    /\ \E x \in reminded, y \in reminded : x[3] = StartDay /\ y[3] = StartDay + 1

\* a time text that get_current_time can return: two digits of an hour
\* below 24, a colon, two digits of a minute below 60
ClockShows(t) ==
    /\ Len(t) = 5
    /\ t[3] = ":"
    /\ IsDigits(SubSeq(t, 1, 2))
    /\ IsDigits(SubSeq(t, 4, 5))
    /\ DigitVal(t[1]) * 10 + DigitVal(t[2]) < 24
    /\ DigitVal(t[4]) * 10 + DigitVal(t[5]) < 60
    /\ FormatHM((DigitVal(t[1]) * 10 + DigitVal(t[2])) * 3600
                + (DigitVal(t[4]) * 10 + DigitVal(t[5])) * 60) = t

\* C22: canonical notify_time. Every event stored through the wizard, by a
\* time button or by a time text accepted in waiting_time, has a
\* notify_time that the clock of the sweep can show.
C22_CanonicalTime ==
    \A u \in Owners : \A r \in db[get_db_path(u)] : ClockShows(r.notify_time)

\* C23: the store changes only by explicit user action. A step that
\* changes the store changes the file of one owner alone, and either adds
\* exactly one event of that owner, being a finalization of that owner's
\* wizard whose save succeeds, or removes exactly one event, being that
\* owner's confirmed deletion of its id; every other step - of a sweep, of
\* a list, a details view, a deletion request, another wizard turn - leaves
\* the store as it is, an event whose day has passed included.
C23_Frame ==
    [][\/ db' = db
       \/ \E u \in Owners :
             LET old == db[get_db_path(u)]
                 new == db'[get_db_path(u)]
             IN  /\ \A f \in Files \ {get_db_path(u)} : db'[f] = db[f]
                 /\ \/ /\ old \subseteq new
                       /\ Cardinality(new \ old) = 1
                       /\ \A r \in new \ old : r.user_id = u
                       /\ \E net \in BOOLEAN :
                             \/ \E t \in TimeChoices : select_time(u, t, TRUE, net)
                             \/ \E text \in TakenTimes \cup {T0000} :
                                    save_custom_time(u, text, TRUE, net)
                    \/ /\ new \subseteq old
                       /\ Cardinality(old \ new) = 1
                       /\ \E id \in EventIds, net \in BOOLEAN :
                             /\ execute_delete_event(u, id, TRUE, net)
                             /\ \A r \in old \ new : r.id = id /\ r.user_id = u]_vars

\* a sweep after midnight has handled the user's event of the day before
\* without a message, and the event is still stored
C23_Witness ==
    /\ pc = "sleep"
    /\ \E x \in outbox :
          /\ x.sends = <<>>
          /\ EventDay(x.row.event_date) < x.today
          /\ x.row \in db[get_db_path(x.row.user_id)]

C25_UnparseableDate ==
    /\ \A x \in outbox :
          ~StoredDate(x.row.event_date).ok =>
              /\ Len(x.sends) = 1
              /\ x.sends[1].kind = "fallback"
              /\ x.sends[1].to = x.row.user_id
    /\ (pc = "sleep" /\ curTime # <<>> /\ snap # {}) =>
          \A r \in snap : Cardinality({x \in outbox : x.row = r}) = 1

\* a sweep has ended in which the plain reminder went out for an event of a
\* date that no calendar has, and the congratulation for another event
C25_Witness ==
    /\ pc = "sleep"
    /\ \E x \in outbox, y \in outbox :
          /\ x.row.event_date = D31_02_2025
          /\ x.sends = <<Send(x.row.user_id, "fallback", 0, TRUE)>>
          /\ y.row.event_date = Iso16
          /\ y.sends = <<Send(y.row.user_id, "congratulation", 0, TRUE)>>

\* C26: session completeness. Under every sequence of turns a user in
\* waiting_date has a description in the FSM data and a user in
\* waiting_time has a description and an event_date, an ISO date that
\* parses; the answer of the missing-field branch of the finalization is
\* never sent, and every stored event has an ISO date that parses.
C26_Completeness ==
    /\ \A u \in Owners :
          /\ fsmState[u] = "waiting_date" => "description" \in DOMAIN fsmData[u]
          /\ fsmState[u] = "waiting_time" =>
                /\ {"description", "event_date"} \subseteq DOMAIN fsmData[u]
                /\ fsmData[u]["event_date"] \in {Iso15, Iso16}
          /\ \A r \in db[get_db_path(u)] : r.event_date \in {Iso15, Iso16}
    /\ reply.kind # "not_filled"

\* one user is asked for the time with both fields held, while the other,
\* whose past date was just rejected, is still asked for the date with the
\* description held
C26_Witness ==
    /\ fsmState[1] = "waiting_time"
    /\ DOMAIN fsmData[1] = WizardFields
    /\ fsmState[2] = "waiting_date"
    /\ DOMAIN fsmData[2] = {"description"}
    /\ reply.kind = "date_passed"
    /\ reply.to = 2

\* C27: one event per pass through the wizard. Whether two time
\* selections of a user are handled at once or the response of a
\* finalization is not delivered, the finalizations of one pass through the
\* wizard save at most one event.
C27_OnePerPass ==
    \A u \in Owners : flight[u].saved <= 1

\* the list sent in the step is the list of the events u has after it
ListedFor(u) ==
    /\ reply'.to = u
    /\ reply'.kind = IF db'[get_db_path(u)] = {} THEN "no_events"
                     ELSE "events_list"
    /\ {reply'.rows[i] : i \in 1..Len(reply'.rows)} = db'[get_db_path(u)]

\* C28: the list after a browsing action is the requester's. The list sent
\* for the back-to-list button, and the list sent after a confirmed
\* deletion that succeeded, holds exactly the events that the user who
\* pressed the button has then, the storage working and the sends going
\* out.
C28_RequestersList ==
    [][\A u \in Owners :
          \/ ListedFor(u)
          \/ ~(\/ return_to_events_list(u, TRUE, TRUE)
               \/ \E id \in EventIds :
                      /\ db' # db
                      /\ execute_delete_event(u, id, TRUE, TRUE))]_vars

====
